---- MODULE Spec2Model ----
(***************************************************************************)
(* A model of main.py: a script that fits a small classifier on MNIST with *)
(* a Lightning trainer and logs to a tracking service.                     *)
(*                                                                         *)
(* Five specifications share the definitions below:                        *)
(*   Spec      the script from its first statement to its last, with the   *)
(*             trainer calling the hooks of LitModel and MNISTDataModule;  *)
(*   SpecHooks the hooks of LitModel applied to batches of labels;         *)
(*   SpecLong  the same script on long runs of one batch per split;        *)
(*   SpecLR    the LambdaLR schedule of configure_optimizers;              *)
(*   SpecDM    MNISTDataModule with its methods called in any order.       *)
(* The trainer, the checkpoint callback, LambdaLR, random_split and the    *)
(* DataLoader are library code: they are modelled by their documented      *)
(* behaviour for the arguments the script passes.                          *)
(***************************************************************************)
EXTENDS Integers, Sequences, FiniteSets, TLC

VARIABLES
    \* the script
    file,            \* contents of parameters.yml
    parameters,      \* the loaded hyper-parameters
    pc,              \* the statement of the script that runs next
    tpc,             \* the position of the trainer inside fit / test
    failedAt,        \* where an exception was raised
    max_epochs,      \* Trainer.max_epochs
    batch_size,      \* MNISTDataModule.batch_size
    current_epoch,   \* LitModel.current_epoch
    batch_idx,       \* index of the next batch of the running loop
    global_step,     \* Trainer.global_step
    val_loss,        \* the val/loss of the last validation epoch
    scalars,         \* scalar keys that reached the logger
    artifacts,       \* artifact keys written to the run
    valPredEpochs,   \* the n with an upload under val/preds/epoch_n
    reads,           \* every call of a data endpoint
    hooksRun,        \* number of LitModel hook calls so far
    nConfusion,      \* calls of log_confusion_matrix
    nVisualization,  \* calls of log_model_visualization
    \* MNISTDataModule
    mnist_train, mnist_val, mnist_test,
    lastCall,        \* the last method of the data module that was called
    firstSplit,      \* the <<train, val>> split the first setup("fit") made
    \* ModelCheckpoint
    best_k_models,   \* epoch -> monitored val/loss of the kept top-k files
    disk,            \* file name -> epoch whose weights the file holds
    val_hist,        \* the val/loss the callback saw, epoch by epoch
    \* LitModel and its LambdaLR scheduler (rationals <<numerator, denominator>>)
    learning_rate,   \* LitModel.learning_rate
    decay_factor,    \* LitModel.decay_factor
    last_epoch,      \* LambdaLR.last_epoch, -1 before the scheduler exists
    lr,              \* the learning rate of the optimizer
    \* one loop of hooks over batches of labels
    loop,            \* the running loop: "train", "val" or "test"
    outputs,         \* what the step hooks returned so far
    uploads,         \* the images the hooks uploaded, in order
    logged,          \* key -> the last value passed to self.log
    ended            \* whether the epoch-end hook has run

cfgVars == <<file, parameters, max_epochs, batch_size>>
loopVars == <<current_epoch, batch_idx, global_step, val_loss>>
logVars == <<scalars, artifacts, valPredEpochs>>
histVars == <<reads, hooksRun, nConfusion, nVisualization>>
scriptVars == <<pc, tpc, failedAt, cfgVars, loopVars, logVars, histVars>>
dmVars == <<mnist_train, mnist_val, mnist_test, lastCall, firstSplit>>
ckptVars == <<best_k_models, disk, val_hist>>
lrVars == <<learning_rate, decay_factor, last_epoch, lr>>
hookVars == <<loop, outputs, uploads, logged, ended>>
vars == <<scriptVars, dmVars, ckptVars, lrVars, hookVars>>

(***************************************************************************)
(* Bounds of the model.                                                    *)
(***************************************************************************)
MaxEpochs == 2
MaxLongEpochs == 6
MaxLoss == 3
MaxSeed == 2
MaxLREpochs == 5

(***************************************************************************)
(* Numbers of the program.                                                 *)
(***************************************************************************)
TrainSplitLen == 55000
ValSplitLen == 5000
MnistTrainLen == 60000
MnistTestLen == 10000
SaveTopK == 3
LogEveryNSteps == 50
NumSanityValSteps == 2
PredsEveryNEpochs == 5

None == [kind |-> "None"]

(***************************************************************************)
(* parameters.yml                                                          *)
(***************************************************************************)
Keys == {"max_epochs", "linear_1", "linear_2", "lr", "decay_factor", "batch_size"}

\* The batch sizes tried: the documented one, and one batch per split.
BatchSizes == {32, TrainSplitLen}

FullConfig(me, bs) ==
    [max_epochs |-> me, linear_1 |-> 64, linear_2 |-> 32, lr |-> <<1, 1000>>,
     decay_factor |-> <<9, 10>>, batch_size |-> bs]

Restrict(f, S) == [k \in S |-> f[k]]

\* The files the script may find: every key present, or one key missing.
ConfigFiles ==
    {Restrict(FullConfig(me, bs), Keys \ missing) :
        me \in 1..MaxEpochs, bs \in BatchSizes,
        missing \in {{}} \cup {{k} : k \in Keys}}

NoParameters == [k \in {} |-> 0]

\* parameters[key] raises KeyError when the key is absent.
HasKeys(ks) == ks \subseteq DOMAIN parameters

(***************************************************************************)
(* MNISTDataModule                                                         *)
(***************************************************************************)
\* A Subset of random_split: the positions lo..hi-1 of the permutation that
\* the draw `seed` produced.
Subset(seed, lo, hi) == [kind |-> "Subset", seed |-> seed, lo |-> lo, hi |-> hi]

\* The held-out set: every example, in order.
TestSet == [kind |-> "MNIST", seed |-> 0, lo |-> 0, hi |-> MnistTestLen]

\* torch.randperm: the position of example e in the permutation of the
\* training set drawn with `seed` (draw 0 is the identity, draw s a rotation).
PermPos(seed, e) == (e + seed * 7919) % MnistTrainLen

DatasetLen(d) == d.hi - d.lo

\* Whether example e is one of the split d.
Holds(d, e) ==
    LET pos == IF d.kind = "Subset" THEN PermPos(d.seed, e) ELSE e
    IN  d.lo <= pos /\ pos < d.hi

\* The examples of a split of the training set.
Members(d) == {e \in 0..(MnistTrainLen - 1) : Holds(d, e)}

\* A variant whose second part starts too early: the parts overlap.
RandomSplitOverlap(seed, a, b) == <<Subset(seed, 0, a), Subset(seed, a - b, a)>>

\* random_split(dataset, [a, b]): one permutation, cut at a.
RandomSplit(seed, a, b) == <<Subset(seed, 0, a), Subset(seed, a, a + b)>>

\* A variant that assigns every split on every call, clearing the others.
SetupAssignsAll(stage) ==
    /\ lastCall' = <<"setup", stage>>
    /\ IF stage = "fit"
       THEN \E seed \in 0..(MaxSeed - 1) :
               /\ mnist_train' = RandomSplit(seed, TrainSplitLen, ValSplitLen)[1]
               /\ mnist_val' = RandomSplit(seed, TrainSplitLen, ValSplitLen)[2]
               /\ firstSplit' = IF firstSplit = <<>>
                                THEN RandomSplit(seed, TrainSplitLen, ValSplitLen)
                                ELSE firstSplit
       ELSE mnist_train' = None /\ mnist_val' = None /\ UNCHANGED firstSplit
    /\ IF stage = "test"
       THEN mnist_test' = TestSet
       ELSE mnist_test' = None

\* setup(stage): only the branch of the stage assigns.
Setup(stage) ==
    /\ lastCall' = <<"setup", stage>>
    /\ IF stage = "fit"
       THEN \E seed \in 0..(MaxSeed - 1) :
               /\ mnist_train' = RandomSplit(seed, TrainSplitLen, ValSplitLen)[1]
               /\ mnist_val' = RandomSplit(seed, TrainSplitLen, ValSplitLen)[2]
               /\ firstSplit' = IF firstSplit = <<>>
                                THEN RandomSplit(seed, TrainSplitLen, ValSplitLen)
                                ELSE firstSplit
       ELSE UNCHANGED <<mnist_train, mnist_val, firstSplit>>
    /\ IF stage = "test"
       THEN mnist_test' = TestSet
       ELSE UNCHANGED mnist_test

\* DataLoader(dataset, batch_size): the number of batches (drop_last is off).
NumBatches(d, bs) == (DatasetLen(d) + bs - 1) \div bs

\* The record of one endpoint call.
Read(endpoint, d) == [endpoint |-> endpoint, populated |-> d # None]

(***************************************************************************)
(* ModelCheckpoint(save_top_k=3, save_last=True, monitor="val/loss")       *)
(***************************************************************************)
\* The name of last.ckpt; a file named e >= 0 is "epoch=e.ckpt".
LastFile == -1

\* The kept file with the worst (highest) loss, the oldest among equals.
KthBestModel ==
    CHOOSE e \in DOMAIN best_k_models :
        \A f \in DOMAIN best_k_models :
            \/ best_k_models[f] < best_k_models[e]
            \/ best_k_models[f] = best_k_models[e] /\ e <= f

\* check_monitor_top_k: room left, or strictly better than the worst kept.
CheckMonitorTopK(current) ==
    \/ Cardinality(DOMAIN best_k_models) < SaveTopK
    \/ current < best_k_models[KthBestModel]

\* A variant that never removes the file that fell out of the top k.
SaveCheckpointNoRemove(epoch, current) ==
    LET save == CheckMonitorTopK(current)
        del == IF save /\ Cardinality(DOMAIN best_k_models) = SaveTopK
               THEN {KthBestModel} ELSE {}
        add == IF save THEN {epoch} ELSE {}
        kept == (DOMAIN best_k_models \ del) \cup add
        files == (DOMAIN disk \cup add) \cup {LastFile}
    IN  /\ best_k_models' =
            [e \in kept |-> IF e = epoch THEN current ELSE best_k_models[e]]
        /\ disk' =
            [f \in files |-> IF f \in add \cup {LastFile} THEN epoch ELSE disk[f]]

\* A variant with save_last off: last.ckpt is never written.
SaveCheckpointNoLast(epoch, current) ==
    LET save == CheckMonitorTopK(current)
        del == IF save /\ Cardinality(DOMAIN best_k_models) = SaveTopK
               THEN {KthBestModel} ELSE {}
        add == IF save THEN {epoch} ELSE {}
        kept == (DOMAIN best_k_models \ del) \cup add
        files == (DOMAIN disk \ del) \cup add
    IN  /\ best_k_models' =
            [e \in kept |-> IF e = epoch THEN current ELSE best_k_models[e]]
        /\ disk' = [f \in files |-> IF f \in add THEN epoch ELSE disk[f]]

\* The callback at the end of validation epoch `epoch` with val/loss `current`:
\* the top-k file is written and the worst one removed, then last.ckpt is
\* rewritten.
SaveCheckpoint(epoch, current) ==
    LET save == CheckMonitorTopK(current)
        del == IF save /\ Cardinality(DOMAIN best_k_models) = SaveTopK
               THEN {KthBestModel} ELSE {}
        add == IF save THEN {epoch} ELSE {}
        kept == (DOMAIN best_k_models \ del) \cup add
        files == ((DOMAIN disk \ del) \cup add) \cup {LastFile}
    IN  /\ best_k_models' =
            [e \in kept |-> IF e = epoch THEN current ELSE best_k_models[e]]
        /\ disk' =
            [f \in files |-> IF f \in add \cup {LastFile} THEN epoch ELSE disk[f]]

NoFiles == [f \in {} |-> 0]

(***************************************************************************)
(* LitModel.configure_optimizers and LambdaLR                              *)
(***************************************************************************)
RECURSIVE Gcd(_, _)
Gcd(a, b) == IF b = 0 THEN a ELSE Gcd(b, a % b)

\* A rational in lowest terms.
Rat(n, d) == <<n \div Gcd(n, d), d \div Gcd(n, d)>>

RatMul(a, b) == Rat(a[1] * b[1], a[2] * b[2])

RECURSIVE RatPow(_, _)
RatPow(a, n) == IF n = 0 THEN <<1, 1>> ELSE RatMul(a, RatPow(a, n - 1))

\* lambda epoch: self.decay_factor ** epoch
LrLambda(epoch) == RatPow(decay_factor, epoch)

\* LambdaLR.get_lr: the initial rate times the lambda of last_epoch.
GetLr(epoch) == RatMul(learning_rate, LrLambda(epoch))

\* configure_optimizers: Adam at learning_rate; LambdaLR takes its first step.
ConfigureOptimizers ==
    /\ last_epoch' = 0
    /\ lr' = GetLr(0)
    /\ UNCHANGED <<learning_rate, decay_factor>>

\* A variant that multiplies the current rate, not the initial one.
SchedulerStepCompound ==
    /\ last_epoch' = last_epoch + 1
    /\ lr' = RatMul(lr, LrLambda(last_epoch + 1))
    /\ UNCHANGED <<learning_rate, decay_factor>>

\* scheduler.step(), once at the end of every training epoch.
SchedulerStep ==
    /\ last_epoch' = last_epoch + 1
    /\ lr' = GetLr(last_epoch + 1)
    /\ UNCHANGED <<learning_rate, decay_factor>>

(***************************************************************************)
(* The script, statement by statement.  An exception anywhere ends it:     *)
(* the file has no try block.                                              *)
(***************************************************************************)
\* A variant in which the exception is caught and the script goes on.
AbortSwallowed(cause) == failedAt' = <<pc, tpc, cause>> /\ UNCHANGED pc

\* An exception of class `cause` is raised: nothing catches it.
Abort(cause) == pc' = "aborted" /\ failedAt' = <<pc, tpc, cause>>

Goto(next) == pc' = next /\ UNCHANGED failedAt

\* with open("parameters.yml") ...: parameters = yaml.safe_load(stream)
LoadParameters ==
    /\ pc = "load_parameters"
    /\ parameters' = file
    /\ Goto("make_callbacks")
    /\ UNCHANGED <<file, max_epochs, batch_size, tpc, loopVars, logVars, histVars>>
    /\ UNCHANGED <<dmVars, ckptVars, lrVars>>
    /\ UNCHANGED hookVars

\* lr_logger, model_checkpoint: the callback starts with no file kept.
MakeCallbacks ==
    /\ pc = "make_callbacks"
    /\ best_k_models' = NoFiles
    /\ UNCHANGED <<disk, val_hist>>
    /\ Goto("make_logger")
    /\ UNCHANGED <<cfgVars, tpc, loopVars, logVars, histVars, dmVars, lrVars>>
    /\ UNCHANGED hookVars

\* neptune_logger = NeptuneLogger(...)
MakeLogger ==
    /\ pc = "make_logger"
    /\ Goto("make_trainer")
    /\ UNCHANGED <<cfgVars, tpc, loopVars, logVars, histVars>>
    /\ UNCHANGED <<dmVars, ckptVars, lrVars>>
    /\ UNCHANGED hookVars

\* trainer = pl.Trainer(..., max_epochs=parameters["max_epochs"], ...)
MakeTrainer ==
    /\ pc = "make_trainer"
    /\ IF HasKeys({"max_epochs"})
       THEN max_epochs' = parameters["max_epochs"] /\ Goto("make_model")
       ELSE Abort("KeyError") /\ UNCHANGED max_epochs
    /\ UNCHANGED <<file, parameters, batch_size, tpc, loopVars, logVars, histVars>>
    /\ UNCHANGED <<dmVars, ckptVars, lrVars>>
    /\ UNCHANGED hookVars

\* model = LitModel(linear_1=..., linear_2=..., learning_rate=..., decay_factor=...)
MakeModel ==
    /\ pc = "make_model"
    /\ IF HasKeys({"linear_1", "linear_2", "lr", "decay_factor"})
       THEN /\ learning_rate' = parameters["lr"]
            /\ decay_factor' = parameters["decay_factor"]
            /\ Goto("make_dm")
       ELSE Abort("KeyError") /\ UNCHANGED <<learning_rate, decay_factor>>
    /\ UNCHANGED <<last_epoch, lr>>
    /\ UNCHANGED <<cfgVars, tpc, loopVars, logVars, histVars, dmVars, ckptVars>>
    /\ UNCHANGED hookVars

\* dm = MNISTDataModule(normalization_vector=..., batch_size=parameters["batch_size"])
MakeDataModule ==
    /\ pc = "make_dm"
    /\ IF HasKeys({"batch_size"})
       THEN /\ batch_size' = parameters["batch_size"]
            /\ mnist_train' = None /\ mnist_val' = None /\ mnist_test' = None
            /\ lastCall' = <<"__init__", "">>
            /\ UNCHANGED firstSplit
            /\ Goto("log_model_summary")
       ELSE Abort("KeyError") /\ UNCHANGED <<batch_size, dmVars>>
    /\ UNCHANGED <<file, parameters, max_epochs, tpc, loopVars, logVars, histVars>>
    /\ UNCHANGED <<ckptVars, lrVars>>
    /\ UNCHANGED hookVars

\* neptune_logger.log_model_summary(model=model, max_depth=-1)
LogModelSummary ==
    /\ pc = "log_model_summary"
    /\ artifacts' = artifacts \cup {"model/summary"}
    /\ Goto("log_hyperparams")
    /\ UNCHANGED <<cfgVars, tpc, loopVars, scalars, valPredEpochs, histVars>>
    /\ UNCHANGED <<dmVars, ckptVars, lrVars>>
    /\ UNCHANGED hookVars

\* neptune_logger.log_hyperparams(params=parameters)
LogHyperparams ==
    /\ pc = "log_hyperparams"
    /\ artifacts' = artifacts \cup {"hyperparams"}
    /\ Goto("fit")
    /\ UNCHANGED <<cfgVars, tpc, loopVars, scalars, valPredEpochs, histVars>>
    /\ UNCHANGED <<dmVars, ckptVars, lrVars>>
    /\ UNCHANGED hookVars

(***************************************************************************)
(* trainer.fit(model, datamodule=dm)                                       *)
(***************************************************************************)
\* A data endpoint is called: DataLoader(None, ...) raises.
CallEndpoint(endpoint, d, next) ==
    /\ reads' = reads \cup {Read(endpoint, d)}
    /\ lastCall' = <<"dataloader", endpoint>>
    /\ UNCHANGED <<mnist_train, mnist_val, mnist_test, firstSplit>>
    /\ IF d # None
       THEN tpc' = next /\ UNCHANGED <<pc, failedAt>>
       ELSE Abort("TypeError") /\ UNCHANGED tpc

\* dm.prepare_data(): both downloads.
FitPrepareData ==
    /\ pc = "fit" /\ tpc = "start"
    /\ tpc' = "setup"
    /\ UNCHANGED <<pc, failedAt, cfgVars, loopVars, logVars, histVars>>
    /\ UNCHANGED <<dmVars, ckptVars, lrVars>>
    /\ UNCHANGED hookVars

\* dm.setup("fit")
FitSetup ==
    /\ pc = "fit" /\ tpc = "setup"
    /\ Setup("fit")
    /\ tpc' = "configure_optimizers"
    /\ UNCHANGED <<pc, failedAt, cfgVars, loopVars, logVars, histVars>>
    /\ UNCHANGED <<ckptVars, lrVars>>
    /\ UNCHANGED hookVars

\* model.configure_optimizers()
FitConfigureOptimizers ==
    /\ pc = "fit" /\ tpc = "configure_optimizers"
    /\ ConfigureOptimizers
    /\ tpc' = "val_dataloader"
    /\ hooksRun' = hooksRun + 1
    /\ UNCHANGED <<pc, failedAt, cfgVars, loopVars, logVars, reads, nConfusion,
                   nVisualization, dmVars, ckptVars>>
    /\ UNCHANGED hookVars

\* dm.val_dataloader(), for the sanity check and every validation epoch
FitValDataloader ==
    /\ pc = "fit" /\ tpc = "val_dataloader"
    /\ CallEndpoint("val", mnist_val, "sanity_val_step")
    /\ batch_idx' = 0
    /\ UNCHANGED <<cfgVars, current_epoch, global_step, val_loss, logVars,
                   hooksRun, nConfusion, nVisualization>>
    /\ UNCHANGED <<ckptVars, lrVars>>
    /\ UNCHANGED hookVars

\* dm.train_dataloader()
FitTrainDataloader ==
    /\ pc = "fit" /\ tpc = "train_dataloader"
    /\ CallEndpoint("train", mnist_train, "train_step")
    /\ batch_idx' = 0
    /\ UNCHANGED <<cfgVars, current_epoch, global_step, val_loss, logVars,
                   hooksRun, nConfusion, nVisualization>>
    /\ UNCHANGED <<ckptVars, lrVars>>
    /\ UNCHANGED hookVars

SanityChecking == tpc \in {"sanity_val_step", "sanity_val_epoch_end"}

Min(a, b) == IF a < b THEN a ELSE b

\* The batches of the running validation loop: the sanity check stops early.
NumValBatches ==
    IF SanityChecking
    THEN Min(NumSanityValSteps, NumBatches(mnist_val, batch_size))
    ELSE NumBatches(mnist_val, batch_size)

\* self.log(key, ...) of a step hook: the trainer forwards it every
\* log_every_n_steps steps.
ShouldUpdateLogs == (global_step + 1) % LogEveryNSteps = 0

\* training_step: logs train/batch/loss and train/batch/acc.
TrainingStep ==
    /\ pc = "fit" /\ tpc = "train_step"
    /\ scalars' = IF ShouldUpdateLogs
                  THEN scalars \cup {"train/batch/loss", "train/batch/acc"}
                  ELSE scalars
    /\ global_step' = global_step + 1
    /\ hooksRun' = hooksRun + 1
    /\ IF batch_idx + 1 < NumBatches(mnist_train, batch_size)
       THEN batch_idx' = batch_idx + 1 /\ UNCHANGED tpc
       ELSE batch_idx' = 0 /\ tpc' = "val_step"
    /\ UNCHANGED <<pc, failedAt, cfgVars, current_epoch, val_loss, artifacts,
                   valPredEpochs, reads, nConfusion, nVisualization>>
    /\ UNCHANGED <<dmVars, ckptVars, lrVars>>
    /\ UNCHANGED hookVars

\* validation_step: logs nothing, returns the batch's results.
ValidationStep ==
    /\ pc = "fit" /\ tpc \in {"sanity_val_step", "val_step"}
    /\ hooksRun' = hooksRun + 1
    /\ IF batch_idx + 1 < NumValBatches
       THEN batch_idx' = batch_idx + 1 /\ UNCHANGED tpc
       ELSE /\ batch_idx' = 0
            /\ tpc' = IF SanityChecking THEN "sanity_val_epoch_end"
                      ELSE "val_epoch_end"
    /\ UNCHANGED <<pc, failedAt, cfgVars, current_epoch, global_step, val_loss,
                   logVars, reads, nConfusion, nVisualization>>
    /\ UNCHANGED <<dmVars, ckptVars, lrVars>>
    /\ UNCHANGED hookVars

\* A variant that counts epochs from one: uploads on epochs 4, 9, 14, ...
UploadsPredsFromOne(epoch) == (epoch + 1) % PredsEveryNEpochs = 0

\* Whether validation_epoch_end uploads the example predictions.
UploadsPreds(epoch) == epoch % PredsEveryNEpochs = 0

\* validation_epoch_end: logs val/loss and val/acc (dropped by the trainer
\* during the sanity check); every 5th epoch uploads the predictions.
ValidationEpochEnd ==
    /\ pc = "fit" /\ tpc \in {"sanity_val_epoch_end", "val_epoch_end"}
    /\ IF SanityChecking
       THEN UNCHANGED <<val_loss, scalars>>
       ELSE /\ \E loss \in 1..MaxLoss : val_loss' = loss
            /\ scalars' = scalars \cup {"val/loss", "val/acc"}
    /\ valPredEpochs' = IF UploadsPreds(current_epoch)
                        THEN valPredEpochs \cup {current_epoch}
                        ELSE valPredEpochs
    /\ hooksRun' = hooksRun + 1
    /\ tpc' = IF SanityChecking THEN "train_dataloader" ELSE "checkpoint"
    /\ UNCHANGED <<pc, failedAt, cfgVars, current_epoch, batch_idx, global_step,
                   artifacts, reads, nConfusion, nVisualization>>
    /\ UNCHANGED <<dmVars, ckptVars, lrVars>>
    /\ UNCHANGED hookVars

\* model_checkpoint, every_n_epochs=1: called when validation ends.
OnValidationEnd ==
    /\ pc = "fit" /\ tpc = "checkpoint"
    /\ SaveCheckpoint(current_epoch, val_loss)
    /\ val_hist' = Append(val_hist, val_loss)
    /\ tpc' = "train_epoch_end"
    /\ UNCHANGED <<pc, failedAt, cfgVars, loopVars, logVars, histVars>>
    /\ UNCHANGED <<dmVars, lrVars>>
    /\ UNCHANGED hookVars

\* training_epoch_end: logs train/epoch/loss and train/epoch/acc.
TrainingEpochEnd ==
    /\ pc = "fit" /\ tpc = "train_epoch_end"
    /\ scalars' = scalars \cup {"train/epoch/loss", "train/epoch/acc"}
    /\ hooksRun' = hooksRun + 1
    /\ tpc' = "scheduler_step"
    /\ UNCHANGED <<pc, failedAt, cfgVars, loopVars, artifacts, valPredEpochs,
                   reads, nConfusion, nVisualization>>
    /\ UNCHANGED <<dmVars, ckptVars, lrVars>>
    /\ UNCHANGED hookVars

\* A variant of the script that reports right after fit, before trainer.test.
FitEpochDoneThenReport ==
    /\ pc = "fit" /\ tpc = "scheduler_step"
    /\ SchedulerStep
    /\ current_epoch' = current_epoch + 1
    /\ IF current_epoch + 1 < max_epochs
       THEN tpc' = "train_step" /\ UNCHANGED pc
       ELSE tpc' = "start" /\ pc' = "confusion"
    /\ UNCHANGED <<failedAt, cfgVars, batch_idx, global_step, val_loss, logVars,
                   histVars, dmVars, ckptVars>>
    /\ UNCHANGED hookVars

\* The epoch ends: the scheduler steps, and fit returns after max_epochs.
FitEpochDone ==
    /\ pc = "fit" /\ tpc = "scheduler_step"
    /\ SchedulerStep
    /\ current_epoch' = current_epoch + 1
    /\ IF current_epoch + 1 < max_epochs
       THEN tpc' = "train_step" /\ UNCHANGED pc
       ELSE tpc' = "start" /\ pc' = "test"
    /\ UNCHANGED <<failedAt, cfgVars, batch_idx, global_step, val_loss, logVars,
                   histVars, dmVars, ckptVars>>
    /\ UNCHANGED hookVars

(***************************************************************************)
(* trainer.test(model, datamodule=dm)                                      *)
(***************************************************************************)
\* dm.setup("test")
TestSetup ==
    /\ pc = "test" /\ tpc = "start"
    /\ Setup("test")
    /\ tpc' = "test_dataloader"
    /\ UNCHANGED <<pc, failedAt, cfgVars, loopVars, logVars, histVars>>
    /\ UNCHANGED <<ckptVars, lrVars>>
    /\ UNCHANGED hookVars

\* dm.test_dataloader()
TestDataloader ==
    /\ pc = "test" /\ tpc = "test_dataloader"
    /\ CallEndpoint("test", mnist_test, "test_step")
    /\ batch_idx' = 0
    /\ UNCHANGED <<cfgVars, current_epoch, global_step, val_loss, logVars,
                   hooksRun, nConfusion, nVisualization>>
    /\ UNCHANGED <<ckptVars, lrVars>>
    /\ UNCHANGED hookVars

\* test_step: uploads the misclassified examples of the batch, if any.
TestStep ==
    /\ pc = "test" /\ tpc = "test_step"
    /\ \E misclassified \in BOOLEAN :
          artifacts' = IF misclassified
                       THEN artifacts \cup {"test/misclassified_images"}
                       ELSE artifacts
    /\ hooksRun' = hooksRun + 1
    /\ IF batch_idx + 1 < NumBatches(mnist_test, batch_size)
       THEN batch_idx' = batch_idx + 1 /\ UNCHANGED tpc
       ELSE batch_idx' = 0 /\ tpc' = "test_epoch_end"
    /\ UNCHANGED <<pc, failedAt, cfgVars, current_epoch, global_step, val_loss,
                   scalars, valPredEpochs, reads, nConfusion, nVisualization>>
    /\ UNCHANGED <<dmVars, ckptVars, lrVars>>
    /\ UNCHANGED hookVars

\* test_epoch_end: logs test/loss and test/acc; then trainer.test returns.
TestEpochEnd ==
    /\ pc = "test" /\ tpc = "test_epoch_end"
    /\ scalars' = scalars \cup {"test/loss", "test/acc"}
    /\ hooksRun' = hooksRun + 1
    /\ tpc' = "start"
    /\ Goto("confusion")
    /\ UNCHANGED <<cfgVars, loopVars, artifacts, valPredEpochs, reads,
                   nConfusion, nVisualization>>
    /\ UNCHANGED <<dmVars, ckptVars, lrVars>>
    /\ UNCHANGED hookVars

(***************************************************************************)
(* Reporting                                                               *)
(***************************************************************************)
\* log_confusion_matrix(model, dm): reads the whole test endpoint, uploads
\* the figure.
LogConfusionMatrix ==
    /\ pc = "confusion"
    /\ nConfusion' = nConfusion + 1
    /\ reads' = reads \cup {Read("test", mnist_test)}
    /\ lastCall' = <<"dataloader", "test">>
    /\ IF mnist_test # None
       THEN /\ artifacts' = artifacts \cup {"confusion_matrix"}
            /\ Goto("visualization")
       ELSE Abort("TypeError") /\ UNCHANGED artifacts
    /\ UNCHANGED <<tpc, cfgVars, loopVars, scalars, valPredEpochs, hooksRun,
                   nVisualization>>
    /\ UNCHANGED <<mnist_train, mnist_val, mnist_test, firstSplit, ckptVars, lrVars>>
    /\ UNCHANGED hookVars

\* log_model_visualization(model, dm): reads one batch of the train endpoint,
\* uploads the rendered graph.
LogModelVisualization ==
    /\ pc = "visualization"
    /\ nVisualization' = nVisualization + 1
    /\ reads' = reads \cup {Read("train", mnist_train)}
    /\ lastCall' = <<"dataloader", "train">>
    /\ IF mnist_train # None
       THEN /\ artifacts' = artifacts \cup {"model/visualization"}
            /\ Goto("done")
       ELSE Abort("TypeError") /\ UNCHANGED artifacts
    /\ UNCHANGED <<tpc, cfgVars, loopVars, scalars, valPredEpochs, hooksRun,
                   nConfusion>>
    /\ UNCHANGED <<mnist_train, mnist_val, mnist_test, firstSplit, ckptVars, lrVars>>
    /\ UNCHANGED hookVars

\* Any statement may raise (no file, no network, a shape mismatch, the
\* tracking service): the exception propagates and the process ends.
Raise ==
    /\ pc \notin {"done", "aborted"}
    /\ Abort("Exception")
    /\ UNCHANGED <<tpc, cfgVars, loopVars, logVars, histVars>>
    /\ UNCHANGED <<dmVars, ckptVars, lrVars>>
    /\ UNCHANGED hookVars

\* Nothing logged, no endpoint called, no hook run.
NothingLogged ==
    /\ scalars = {} /\ artifacts = {} /\ valPredEpochs = {}
    /\ reads = {} /\ hooksRun = 0 /\ nConfusion = 0 /\ nVisualization = 0

\* The trainer's counters before the first epoch.
LoopAtStart ==
    current_epoch = 0 /\ batch_idx = 0 /\ global_step = 0 /\ val_loss = 0

\* MNISTDataModule.__init__: no split yet.
NoSplits ==
    /\ mnist_train = None /\ mnist_val = None /\ mnist_test = None
    /\ firstSplit = <<>>

\* ModelCheckpoint(...) on an empty model/checkpoints/.
NoCheckpoints == best_k_models = NoFiles /\ disk = NoFiles /\ val_hist = <<>>

\* No optimizer and no scheduler yet.
NoSchedule == last_epoch = -1 /\ lr = <<0, 1>>

\* No hook has been applied to a batch.
NoHooks ==
    /\ loop = "" /\ outputs = <<>> /\ uploads = <<>> /\ logged = <<>>
    /\ ended = FALSE

\* The state before the first statement, given the parameters file.
Start(f) ==
    /\ file = f
    /\ parameters = NoParameters
    /\ pc = "load_parameters" /\ tpc = "start" /\ failedAt = <<>>
    /\ max_epochs = 0 /\ batch_size = 0
    /\ LoopAtStart /\ NothingLogged /\ NoSplits /\ lastCall = <<"", "">>
    /\ NoCheckpoints
    /\ learning_rate = <<0, 1>> /\ decay_factor = <<0, 1>> /\ NoSchedule
    /\ NoHooks

Next ==
    \/ LoadParameters \/ MakeCallbacks \/ MakeLogger \/ MakeTrainer
    \/ MakeModel \/ MakeDataModule \/ LogModelSummary \/ LogHyperparams
    \/ FitPrepareData \/ FitSetup \/ FitConfigureOptimizers
    \/ FitValDataloader \/ FitTrainDataloader
    \/ TrainingStep \/ ValidationStep \/ ValidationEpochEnd
    \/ OnValidationEnd \/ TrainingEpochEnd \/ FitEpochDone
    \/ TestSetup \/ TestDataloader \/ TestStep \/ TestEpochEnd
    \/ LogConfusionMatrix \/ LogModelVisualization
    \/ Raise

Init == \E f \in ConfigFiles : Start(f)

Spec == Init /\ [][Next]_vars

(***************************************************************************)
(* The same script on long runs: one batch per split, more epochs.         *)
(***************************************************************************)
LongConfigFiles ==
    {[FullConfig(me, TrainSplitLen) EXCEPT !.lr = <<1, 100>>] :
        me \in 1..MaxLongEpochs}

InitLong == \E f \in LongConfigFiles : Start(f)

SpecLong == InitLong /\ [][Next]_vars

(***************************************************************************)
(* The schedule alone, over more rates and factors.                        *)
(***************************************************************************)
LearningRates == {<<1, 1000>>, <<1, 100>>, <<1, 10>>, <<1, 2>>}

DecayFactors == {<<9, 10>>, <<1, 2>>, <<3, 4>>, <<1, 10>>, <<1, 1>>}


\* LitModel(learning_rate=..., decay_factor=...) before configure_optimizers.
InitLR ==
    /\ \E rate \in LearningRates, factor \in DecayFactors :
          /\ learning_rate = rate
          /\ decay_factor = factor
          /\ file = [FullConfig(MaxLREpochs, 32) EXCEPT
                        !.lr = rate, !.decay_factor = factor]
    /\ parameters = file
    /\ pc = "fit" /\ tpc = "configure_optimizers" /\ failedAt = <<>>
    /\ max_epochs = MaxLREpochs /\ batch_size = 32
    /\ LoopAtStart /\ NothingLogged /\ NoSplits /\ lastCall = <<"__init__", "">>
    /\ NoCheckpoints /\ NoSchedule /\ NoHooks

\* configure_optimizers, called once.
LRConfigure ==
    /\ last_epoch = -1
    /\ ConfigureOptimizers
    /\ UNCHANGED <<scriptVars, dmVars, ckptVars>>
    /\ UNCHANGED hookVars

\* One training epoch ends: the trainer steps the scheduler.
LREpochEnd ==
    /\ last_epoch >= 0 /\ current_epoch < max_epochs
    /\ SchedulerStep
    /\ current_epoch' = current_epoch + 1
    /\ UNCHANGED <<pc, tpc, failedAt, cfgVars, batch_idx, global_step, val_loss,
                   logVars, histVars, dmVars, ckptVars>>
    /\ UNCHANGED hookVars

NextLR == LRConfigure \/ LREpochEnd

SpecLR == InitLR /\ [][NextLR]_vars

(***************************************************************************)
(* MNISTDataModule alone: a caller may call its methods in any order.      *)
(***************************************************************************)
\* The stages a trainer passes to setup.
Stages == {"fit", "validate", "test", "predict"}

\* dm = MNISTDataModule(batch_size, normalization_vector)
InitDM ==
    /\ \E bs \in BatchSizes :
          /\ file = FullConfig(1, bs)
          /\ batch_size = bs
    /\ parameters = file
    /\ pc = "log_model_summary" /\ tpc = "start" /\ failedAt = <<>>
    /\ max_epochs = 1
    /\ LoopAtStart /\ NothingLogged /\ NoSplits /\ lastCall = <<"__init__", "">>
    /\ NoCheckpoints
    /\ learning_rate = <<1, 1000>> /\ decay_factor = <<9, 10>> /\ NoSchedule
    /\ NoHooks

\* dm.setup(stage)
DMSetup ==
    /\ \E stage \in Stages : Setup(stage)
    /\ UNCHANGED <<scriptVars, ckptVars, lrVars>>
    /\ UNCHANGED hookVars

\* An endpoint is called; with its split unset the DataLoader raises and
\* the data module is as before.
DMDataloader(endpoint, d) ==
    /\ lastCall' = <<IF d # None THEN "dataloader" ELSE "dataloader raised",
                     endpoint>>
    /\ UNCHANGED <<mnist_train, mnist_val, mnist_test, firstSplit>>
    /\ UNCHANGED <<scriptVars, ckptVars, lrVars, hookVars>>

DMTrainDataloader == DMDataloader("train", mnist_train)

DMValDataloader == DMDataloader("val", mnist_val)

DMTestDataloader == DMDataloader("test", mnist_test)

NextDM == DMSetup \/ DMTrainDataloader \/ DMValDataloader \/ DMTestDataloader

SpecDM == InitDM /\ [][NextDM]_vars

(***************************************************************************)
(* The hooks of LitModel over the batches of one loop.  A batch is its     *)
(* true labels y, the predicted labels argmax(y_hat) and its loss.         *)
(***************************************************************************)
MaxBatches == 2
MaxHookEpoch == 6

Labels == {0, 1}

BatchLens == {1, 2}

LossValues == {1, 2}

LabelSeqs == UNION {[1..n -> Labels] : n \in BatchLens}

\* accuracy_score(y_true, y_pred): the fraction of positions that agree.
AccuracyScore(y_true, y_pred) ==
    Rat(Cardinality({i \in 1..Len(y_true) : y_true[i] = y_pred[i]}), Len(y_true))

\* The dict training_step and test_step return.
StepResult(loss, y_true, y_pred) ==
    [loss |-> loss, y_true |-> y_true, y_pred |-> y_pred]

\* The dict validation_step returns: with the prediction for the first
\* example of the batch, named by the predicted class, described by the target.
ValidationStepResult(loss, y_true, y_pred) ==
    [loss |-> loss, y_true |-> y_true, y_pred |-> y_pred,
     predictions |-> [name |-> y_pred[1], description |-> y_true[1]]]

\* for results_dict in outputs: a = np.append(a, results_dict[field]),
\* for a field that holds one value per batch.
RECURSIVE AppendEach(_, _)
AppendEach(outs, field) ==
    IF outs = <<>> THEN <<>>
    ELSE Append(AppendEach(SubSeq(outs, 1, Len(outs) - 1), field),
                outs[Len(outs)][field])

\* The same loop for a field that holds an array per batch: np.append
\* flattens.
RECURSIVE AppendFlat(_, _)
AppendFlat(outs, field) ==
    IF outs = <<>> THEN <<>>
    ELSE AppendFlat(SubSeq(outs, 1, Len(outs) - 1), field) \o outs[Len(outs)][field]

RECURSIVE Sum(_)
Sum(a) == IF a = <<>> THEN 0 ELSE a[1] + Sum(Tail(a))

\* ndarray.mean()
Mean(a) == Rat(Sum(a), Len(a))

\* The loss an epoch-end hook logs.
EpochLoss(outs) == Mean(AppendEach(outs, "loss"))

\* A variant that averages the accuracies of the batches.
EpochAccMeanOfBatches(outs) ==
    LET acc(k) == AccuracyScore(outs[k].y_true, outs[k].y_pred)
        RECURSIVE SumAcc(_)
        SumAcc(k) == IF k = 0 THEN <<0, 1>>
                     ELSE LET a == SumAcc(k - 1)
                          IN  Rat(a[1] * acc(k)[2] + acc(k)[1] * a[2],
                                  a[2] * acc(k)[2])
    IN  RatMul(SumAcc(Len(outs)), <<1, Len(outs)>>)

\* The accuracy an epoch-end hook logs.
EpochAcc(outs) ==
    AccuracyScore(AppendFlat(outs, "y_true"), AppendFlat(outs, "y_pred"))

\* self.log(lossKey, ...); self.log(accKey, ...)
Log(lossKey, loss, accKey, acc) ==
    logged' = (lossKey :> loss) @@ (accKey :> acc) @@ logged

\* np.where(np.not_equal(y_true, y_pred))[0]
Misclassified(y_true, y_pred) ==
    SelectSeq([i \in 1..Len(y_true) |-> i], LAMBDA j : y_true[j] # y_pred[j])

\* A variant that uploads an image for every example of the batch.
MisclassifiedImagesAll(y_true, y_pred) ==
    [k \in 1..Len(y_true) |->
        [key |-> "test/misclassified_images",
         y_pred |-> y_pred[k], y_true |-> y_true[k]]]

\* test_step's uploads for one batch: an image per misclassified example,
\* described by "y_pred={}, y_true={}".
MisclassifiedImages(y_true, y_pred) ==
    LET idx == Misclassified(y_true, y_pred)
    IN  [k \in 1..Len(idx) |->
            [key |-> "test/misclassified_images",
             y_pred |-> y_pred[idx[k]], y_true |-> y_true[idx[k]]]]

\* validation_epoch_end's uploads: every collected prediction, under
\* val/preds/epoch_{current_epoch}, on the epochs that upload.
PredImages(epoch, image_preds) ==
    IF UploadsPreds(epoch)
    THEN [k \in 1..Len(image_preds) |->
            [key |-> "val/preds/epoch", n |-> epoch,
             name |-> image_preds[k].name,
             description |-> image_preds[k].description]]
    ELSE <<>>

\* A loop starts: the trainer is about to pass batches to the step hook.
InitHooks ==
    /\ \E l \in {"train", "val", "test"} :
          /\ loop = l
          /\ pc = IF l = "test" THEN "test" ELSE "fit"
          /\ tpc = l \o "_step"
          /\ current_epoch \in IF l = "val" THEN 0..MaxHookEpoch ELSE {0}
    /\ file = FullConfig(MaxHookEpoch + 1, 32)
    /\ parameters = file /\ failedAt = <<>>
    /\ max_epochs = MaxHookEpoch + 1 /\ batch_size = 32
    /\ batch_idx = 0 /\ global_step = 0 /\ val_loss = 0
    /\ NothingLogged /\ NoSplits /\ lastCall = <<"__init__", "">>
    /\ NoCheckpoints
    /\ learning_rate = <<1, 1000>> /\ decay_factor = <<9, 10>> /\ NoSchedule
    /\ outputs = <<>> /\ uploads = <<>> /\ logged = <<>> /\ ended = FALSE

\* training_step on one batch
HookTrainingStep ==
    /\ loop = "train" /\ ~ended /\ Len(outputs) < MaxBatches
    /\ \E y_true \in LabelSeqs, y_pred \in LabelSeqs, loss \in LossValues :
          /\ Len(y_true) = Len(y_pred)
          /\ Log("train/batch/loss", Rat(loss, 1),
                 "train/batch/acc", AccuracyScore(y_true, y_pred))
          /\ outputs' = Append(outputs, StepResult(loss, y_true, y_pred))
    /\ UNCHANGED <<loop, uploads, ended, scriptVars, dmVars, ckptVars, lrVars>>

\* training_epoch_end on the collected outputs (the train split is not
\* empty: there is at least one)
HookTrainingEpochEnd ==
    /\ loop = "train" /\ ~ended /\ outputs # <<>>
    /\ Log("train/epoch/loss", EpochLoss(outputs),
           "train/epoch/acc", EpochAcc(outputs))
    /\ ended' = TRUE
    /\ UNCHANGED <<loop, outputs, uploads, scriptVars, dmVars, ckptVars, lrVars>>

\* validation_step on one batch
HookValidationStep ==
    /\ loop = "val" /\ ~ended /\ Len(outputs) < MaxBatches
    /\ \E y_true \in LabelSeqs, y_pred \in LabelSeqs, loss \in LossValues :
          /\ Len(y_true) = Len(y_pred)
          /\ outputs' = Append(outputs, ValidationStepResult(loss, y_true, y_pred))
    /\ UNCHANGED <<loop, uploads, logged, ended>>
    /\ UNCHANGED <<scriptVars, dmVars, ckptVars, lrVars>>

\* validation_epoch_end on the collected outputs
HookValidationEpochEnd ==
    /\ loop = "val" /\ ~ended /\ outputs # <<>>
    /\ Log("val/loss", EpochLoss(outputs), "val/acc", EpochAcc(outputs))
    /\ uploads' = uploads \o PredImages(current_epoch,
                                        AppendEach(outputs, "predictions"))
    /\ ended' = TRUE
    /\ UNCHANGED <<loop, outputs, scriptVars, dmVars, ckptVars, lrVars>>

\* test_step on one batch
HookTestStep ==
    /\ loop = "test" /\ ~ended /\ Len(outputs) < MaxBatches
    /\ \E y_true \in LabelSeqs, y_pred \in LabelSeqs, loss \in LossValues :
          /\ Len(y_true) = Len(y_pred)
          /\ uploads' = uploads \o MisclassifiedImages(y_true, y_pred)
          /\ outputs' = Append(outputs, StepResult(loss, y_true, y_pred))
    /\ UNCHANGED <<loop, logged, ended, scriptVars, dmVars, ckptVars, lrVars>>

\* test_epoch_end on the collected outputs
HookTestEpochEnd ==
    /\ loop = "test" /\ ~ended /\ outputs # <<>>
    /\ Log("test/loss", EpochLoss(outputs), "test/acc", EpochAcc(outputs))
    /\ ended' = TRUE
    /\ UNCHANGED <<loop, outputs, uploads, scriptVars, dmVars, ckptVars, lrVars>>

NextHooks ==
    \/ HookTrainingStep \/ HookTrainingEpochEnd
    \/ HookValidationStep \/ HookValidationEpochEnd
    \/ HookTestStep \/ HookTestEpochEnd

SpecHooks == InitHooks /\ [][NextHooks]_vars

(***************************************************************************)
(* Properties                                                              *)
(***************************************************************************)

C2_Retention ==
    LET n == Len(val_hist)
        kept == DOMAIN disk \ {LastFile}
    IN  IF n = 0 THEN DOMAIN disk = {}
        ELSE /\ Cardinality(DOMAIN disk) <= 4
             /\ LastFile \in DOMAIN disk /\ disk[LastFile] = n - 1
             /\ kept \subseteq 0..(n - 1)
             /\ Cardinality(kept) = (IF n < 3 THEN n ELSE 3)
             /\ \A e \in kept : disk[e] = e
             /\ \A e \in kept, f \in (0..(n - 1)) \ kept :
                   val_hist[e + 1] <= val_hist[f + 1]

C2_Witness ==
    /\ Len(val_hist) = 5
    /\ DOMAIN disk = {LastFile, 1, 3, 4}
    /\ disk[LastFile] = 4

\* The configuration of the end-to-end scenario.
ScenarioConfig == FullConfig(1, 32)

ScalarKeys ==
    {"train/batch/loss", "train/batch/acc", "train/epoch/loss",
     "train/epoch/acc", "val/loss", "val/acc", "test/loss", "test/acc"}

\* C3 as stated: with the scenario's configuration the script ends with
\* exactly one checkpoint file and every scalar key logged.
C3_OneCheckpointFile ==
    file = ScenarioConfig /\ pc = "done" =>
        /\ Cardinality(DOMAIN disk) = 1
        /\ ScalarKeys \subseteq scalars

\* C3, amended: with the scenario's configuration the script raises nothing
\* of its own and runs one epoch; when it ends there are exactly two
\* checkpoint files, the file of epoch 0 and last.ckpt, both with the weights
\* of epoch 0, and every scalar key has been logged.
C3_TwoCheckpointFiles ==
    file = ScenarioConfig =>
        /\ pc = "aborted" => failedAt[3] = "Exception"
        /\ pc = "done" =>
              /\ Len(val_hist) = 1
              /\ DOMAIN disk = {0, LastFile}
              /\ disk[0] = 0 /\ disk[LastFile] = 0
              /\ ScalarKeys \subseteq scalars

C3_Witness ==
    /\ file = ScenarioConfig /\ pc = "done"
    /\ Cardinality(DOMAIN disk) = 2
    /\ ScalarKeys \subseteq scalars

\* The <<y_pred, y_true>> of every position where two label arrays differ.
RECURSIVE Mismatches(_, _)
Mismatches(y_true, y_pred) ==
    IF y_true = <<>> THEN <<>>
    ELSE (IF Head(y_true) # Head(y_pred)
          THEN <<<<Head(y_pred), Head(y_true)>>>> ELSE <<>>)
         \o Mismatches(Tail(y_true), Tail(y_pred))

\* C4: through a test pass the uploads to test/misclassified_images are, in
\* order, one per example whose predicted label differs from its true label,
\* each described by that example's predicted and true label; nothing is
\* uploaded for an example that is classified correctly.
C4_OneImagePerMisclassified ==
    loop = "test" =>
        LET expected == Mismatches(AppendFlat(outputs, "y_true"),
                                   AppendFlat(outputs, "y_pred"))
        IN  /\ Len(uploads) = Len(expected)
            /\ \A k \in 1..Len(uploads) :
                  /\ uploads[k].key = "test/misclassified_images"
                  /\ <<uploads[k].y_pred, uploads[k].y_true>> = expected[k]

C4_Witness ==
    /\ loop = "test" /\ Len(outputs) = 2
    /\ outputs[1].y_true = <<0, 1>> /\ outputs[1].y_pred = <<1, 1>>
    /\ outputs[2].y_true = <<1>> /\ outputs[2].y_pred = <<0>>
    /\ Len(uploads) = 2
    /\ uploads[1].y_pred = 1 /\ uploads[1].y_true = 0


\* C5 as stated: once setup("fit") has made the splits they have 55000 and
\* 5000 examples, are disjoint and cover the 60000 examples, and no later
\* call changes the examples of either split.
C5_PartitionFixed ==
    [][mnist_train # None =>
          /\ Cardinality(Members(mnist_train)) = 55000
          /\ Cardinality(Members(mnist_val)) = 5000
          /\ \A e \in 0..59999 : Holds(mnist_train, e) # Holds(mnist_val, e)
          /\ Members(mnist_train') = Members(mnist_train)
          /\ Members(mnist_val') = Members(mnist_val)]_vars

\* C5, amended: after setup("fit") the train and validation splits have 55000
\* and 5000 examples, are disjoint and together cover the 60000 examples of
\* the training set; the partition stays as it is through every call except
\* setup("fit"), which draws a new one each time it is called.
C5_PartitionUntilNextFit ==
    /\ [](mnist_train # None =>
            /\ mnist_val # None
            /\ Cardinality(Members(mnist_train)) = 55000
            /\ Cardinality(Members(mnist_val)) = 5000
            /\ \A e \in 0..59999 : Holds(mnist_train, e) # Holds(mnist_val, e))
    /\ [][lastCall' # <<"setup", "fit">> =>
             mnist_train' = mnist_train /\ mnist_val' = mnist_val]_vars

C5_Witness ==
    /\ lastCall = <<"setup", "test">>
    /\ mnist_train # None /\ mnist_test # None
    /\ firstSplit # <<>> /\ mnist_train # firstSplit[1]

\* base ^ n over the integers.
RECURSIVE IntPow(_, _)
IntPow(base, n) == IF n = 0 THEN 1 ELSE base * IntPow(base, n - 1)

\* C6: from configure_optimizers on, the rate in effect at epoch e is the
\* initial rate times decay_factor to the power e, where e counts the
\* epochs completed; the factor is not applied to the decayed rate.
C6_RateIsInitialTimesPower ==
    last_epoch >= 0 =>
        /\ last_epoch = current_epoch
        /\ lr = Rat(learning_rate[1] * IntPow(decay_factor[1], current_epoch),
                    learning_rate[2] * IntPow(decay_factor[2], current_epoch))

C6_Witness ==
    /\ learning_rate = <<1, 1000>> /\ decay_factor = <<9, 10>>
    /\ current_epoch = 3 /\ lr = <<729, 1000000>>

\* The statements the script runs after the model and the data module exist.
LaterStages == {"log_model_summary", "log_hyperparams", "fit", "test",
                "confusion", "visualization", "done"}

\* C7: an exception ends the script where it is raised: from then on nothing
\* changes (the statement is not tried again, no later stage runs); with a
\* key missing from the parameters file no hook of the model ever runs and
\* no training step is taken.
C7_FailureTerminates ==
    /\ [](failedAt # <<>> => pc = "aborted")
    /\ [][failedAt # <<>> => UNCHANGED vars]_vars
    /\ [](~(Keys \subseteq DOMAIN file) =>
            /\ global_step = 0 /\ hooksRun = 0
            /\ pc \notin LaterStages
            /\ nConfusion = 0 /\ nVisualization = 0)

C7_Witness ==
    /\ pc = "aborted" /\ "batch_size" \notin DOMAIN file
    /\ failedAt = <<"make_dm", "start", "KeyError">>
    /\ global_step = 0

\* C8: the confusion-matrix routine and then the visualization routine run,
\* each at most once and both exactly once in a run that finishes; by the
\* time the first of them starts fit has run all its epochs and test has
\* logged its epoch, and no hook of the model runs afterwards.
C8_ReportingOnceAfterTest ==
    /\ [](/\ nConfusion <= 1 /\ nVisualization <= 1
          /\ nVisualization <= nConfusion
          /\ (pc = "done" => nConfusion = 1 /\ nVisualization = 1)
          /\ (nConfusion >= 1 =>
                 /\ current_epoch = max_epochs
                 /\ {"test/loss", "test/acc"} \subseteq scalars
                 /\ pc \in {"visualization", "done", "aborted"}))
    /\ [][nConfusion >= 1 => hooksRun' = hooksRun]_vars
    /\ [][nVisualization' > nVisualization => nConfusion = 1]_vars

C8_Witness ==
    /\ pc = "done" /\ nConfusion = 1 /\ nVisualization = 1
    /\ {"confusion_matrix", "model/visualization"} \subseteq artifacts

\* The number of examples of a batch output whose two labels agree.
Matches(out) ==
    Cardinality({i \in 1..Len(out.y_true) : out.y_true[i] = out.y_pred[i]})

RECURSIVE TotalMatches(_)
TotalMatches(outs) ==
    IF outs = <<>> THEN 0 ELSE Matches(Head(outs)) + TotalMatches(Tail(outs))

RECURSIVE TotalExamples(_)
TotalExamples(outs) ==
    IF outs = <<>> THEN 0 ELSE Len(Head(outs).y_true) + TotalExamples(Tail(outs))

RECURSIVE TotalLoss(_)
TotalLoss(outs) ==
    IF outs = <<>> THEN 0 ELSE Head(outs).loss + TotalLoss(Tail(outs))

\* The keys the epoch-end hook of a loop logs.
EpochKeys ==
    CASE loop = "train" -> <<"train/epoch/loss", "train/epoch/acc">>
      [] loop = "val" -> <<"val/loss", "val/acc">>
      [] loop = "test" -> <<"test/loss", "test/acc">>

\* C9: the accuracy an epoch-end hook logs is the number of examples, over
\* all batches, whose predicted label is the true one, divided by the number
\* of examples (1 when all agree, 0 when none does); the loss it logs is the
\* sum of the batch losses divided by the number of batches.
C9_EpochAggregates ==
    loop \in {"train", "val", "test"} /\ ended =>
        LET matches == TotalMatches(outputs)
            examples == TotalExamples(outputs)
            acc == logged[EpochKeys[2]]
        IN  /\ acc = Rat(matches, examples)
            /\ matches = examples => acc = <<1, 1>>
            /\ matches = 0 => acc = <<0, 1>>
            /\ logged[EpochKeys[1]] = Rat(TotalLoss(outputs), Len(outputs))

C9_Witness ==
    /\ loop = "train" /\ ended /\ Len(outputs) = 2
    /\ outputs[1].y_true = <<0, 1>> /\ outputs[1].y_pred = <<0, 1>>
    /\ outputs[2].y_true = <<0>> /\ outputs[2].y_pred = <<1>>
    /\ outputs[1].loss = 1 /\ outputs[2].loss = 2
    /\ logged["train/epoch/acc"] = <<2, 3>>
    /\ logged["train/epoch/loss"] = <<3, 2>>

\* C10: every endpoint call of the script finds its split set; setup("test")
\* sets the test split and leaves the train and validation splits as they
\* are, setup("fit") sets those two and leaves the test split as it is; the
\* visualization routine reads the train split made during fit.
C10_EndpointsPopulated ==
    /\ [](\A r \in reads : r.populated)
    /\ [](pc \in {"visualization", "done"} =>
            /\ firstSplit # <<>>
            /\ mnist_train = firstSplit[1] /\ mnist_val = firstSplit[2]
            /\ mnist_train # None /\ mnist_test # None)
    /\ [][/\ lastCall' = <<"setup", "test">> =>
               /\ mnist_train' = mnist_train /\ mnist_val' = mnist_val
               /\ mnist_test' # None
          /\ lastCall' = <<"setup", "fit">> =>
               /\ mnist_test' = mnist_test
               /\ mnist_train' # None /\ mnist_val' # None]_vars

C10_Witness ==
    /\ pc = "done"
    /\ reads = {Read(e, TestSet) : e \in {"train", "val", "test"}}
    /\ mnist_train = firstSplit[1]

====
